---- MODULE Spec2Model ----
(***************************************************************************)
(* epub-renamer (src/main.go): main() checks its arguments, starts one     *)
(* goroutine run(file, outputDirectory, resultsChan) per input path,       *)
(* receives len(files) messages on the unbuffered channel into a map and   *)
(* prints the tally.  A text the code looks into (a title, an author, an   *)
(* entry name) is a sequence of one-character strings, file contents are   *)
(* sequences of chunks, the file system is a function from path to node.   *)
(***************************************************************************)
EXTENDS Integers, Sequences, FiniteSets, TLC

\* ------------------------------------------------------------- bounds
\* most input paths on the command line
MaxFiles == 2
\* longest title / author drawn for the sanitizer on its own
MaxLen == 3

\* ------------------------------------------------------------ strings
Lower == {"a","b","c","d","e","f","g","h","i","j","k","l","m",
          "n","o","p","q","r","s","t","u","v","w","x","y","z"}
Upper == {"A","B","C","D","E","F","G","H","I","J","K","L","M",
          "N","O","P","Q","R","S","T","U","V","W","X","Y","Z"}
Digit == {"0","1","2","3","4","5","6","7","8","9"}

\* the character class [^a-zA-Z0-9] of lines 59 and 60
NotAlnumMut(c) == c \notin (Lower \cup Digit)
NotAlnum(c) == c \notin (Lower \cup Upper \cup Digit)

\* a match of [^a-zA-Z0-9]+ that starts at src[k] is greedy: it ends before
\* the first character after k that the class does not match, or with src
RECURSIVE MatchEnd(_, _)
MatchEndMut(src, k) == k + 1
MatchEnd(src, k) ==
  IF k <= Len(src) /\ NotAlnum(src[k]) THEN MatchEnd(src, k + 1) ELSE k

\* regexp.ReplaceAllString for the pattern [^a-zA-Z0-9]+ : from src[k] on,
\* left to right, every match is replaced by repl, all else is kept; src is
\* the sequence of the characters of the string, the result is a string
RECURSIVE ReplaceFrom(_, _, _)
ReplaceFrom(src, repl, k) ==
  IF k > Len(src) THEN ""
  ELSE IF NotAlnum(src[k])
       THEN repl \o ReplaceFrom(src, repl, MatchEnd(src, k))
       ELSE src[k] \o ReplaceFrom(src, repl, k + 1)
ReplaceAllString(src, repl) == ReplaceFrom(src, repl, 1)

DotOpf == <<".", "o", "p", "f">>
EpubMime == "application/epub+zip"

\* type BookData
BookData(title, author) == [Title |-> title, Author |-> author]
EmptyBookData == BookData(<<>>, <<>>)

\* func sanitizeData
sanitizeData(data) ==
  LET title == ReplaceAllString(data.Title, "_")
      author == ReplaceAllString(data.Author, "")
  IN title \o "-" \o author \o ".epub"

\* strings.HasSuffix
HasSuffix(s, suffix) ==
  /\ Len(s) >= Len(suffix)
  /\ SubSeq(s, Len(s) - Len(suffix) + 1, Len(s)) = suffix

\* ------------------------------------------------- archives and metadata
\* a zip entry: its name, whether file.Open() succeeds, and the document it
\* holds (malformed, or the metadata>title / metadata>creator it declares)
Entry(name, opens, wellformed, fields) ==
  [Name |-> name, opens |-> opens, wellformed |-> wellformed, fields |-> fields]
Opf(name, title, creator) ==
  Entry(name, TRUE, TRUE, [title |-> title, creator |-> creator])
NoFields == [x \in {} |-> <<>>]
Other(name) == Entry(name, TRUE, FALSE, NoFields)

Title1 == <<"H", "i", "!">>
Author1 == <<"J", ".", " ", "R">>
Title2 == <<"?", "B", " ", " ", "2">>
Author2 == <<"K">>

\* xml.Unmarshal into BookData: an absent element leaves the field empty
Unmarshal(doc) ==
  IF ~doc.wellformed THEN [data |-> EmptyBookData, err |-> "xml"]
  ELSE [data |-> BookData(
                   IF "title" \in DOMAIN doc.fields THEN doc.fields.title ELSE <<>>,
                   IF "creator" \in DOMAIN doc.fields THEN doc.fields.creator ELSE <<>>),
        err |-> "nil"]

\* func parseContentOPF: io.ReadAll, then xml.Unmarshal
parseContentOPF(rc) ==
  IF ~rc.readable THEN [data |-> EmptyBookData, err |-> "read"]
  ELSE Unmarshal(rc.doc)

\* func readEpubData: the first entry whose name ends in ".opf" decides
\* the entry stream rc is "nil" while file.Open did not give one
DeferredMut(r) ==
  [data |-> r.data, err |-> r.err, rc |-> IF r.err = "nil" THEN "closed" ELSE "open"]
\* line 50: defer rc.Close() runs when readEpubData returns what
\* parseContentOPF gave, an error or not
Deferred(r) == [data |-> r.data, err |-> r.err, rc |-> "closed"]

RECURSIVE ScanFrom(_, _)
ScanFromMut(f, k) ==
  IF k > Len(f.File)
  THEN [data |-> EmptyBookData, err |-> "failed to find epub opf", rc |-> "nil"]
  ELSE LET file == f.File[k] IN
    IF HasSuffix(file.Name, DotOpf)
    THEN IF ~file.opens \/ ~f.intact \/ ~file.wellformed
         THEN ScanFrom(f, k + 1)
         ELSE Deferred(parseContentOPF([readable |-> f.intact, doc |-> file]))
    ELSE ScanFrom(f, k + 1)
ScanFrom(f, k) ==
  IF k > Len(f.File)
  THEN [data |-> EmptyBookData, err |-> "failed to find epub opf", rc |-> "nil"]
  ELSE LET file == f.File[k] IN
    IF HasSuffix(file.Name, DotOpf)
    THEN IF ~file.opens \/ ~f.intact
         THEN [data |-> EmptyBookData, err |-> "open", rc |-> "nil"]
         ELSE Deferred(parseContentOPF([readable |-> f.intact, doc |-> file]))
    ELSE ScanFrom(f, k + 1)
readEpubData(f) == ScanFrom(f, 1)

\* ---------------------------------------------------------- file system
Join(dir, name) == dir \o "/" \o name

DirO == "o"
NameA == "a"
NameE == "e"
NameN == "n"
NameU == "u"
NameB == "b"
NameK == "k"
NameT == "t"
NameM == "m"
\* Join(DirO, sanitizeData(BookData(Title1, Author1)))
PathX == "o/Hi_-JR.epub"
\* Join(DirO, sanitizeData(BookData(Title2, Author2)))
PathO == "o/_B_2-K.epub"

\* the regular files of the initial disk, the b-th in the order of InputPaths:
\* path, whether the content carries the epub signature, whether it is a
\* readable zip, and the zip's entries
InputFiles(b) ==
  \* a book; its second descriptor is never used
  IF b = 1 THEN
  [path |-> NameA, epub |-> TRUE, zip |-> TRUE,
   File |-> <<Other(<<"m">>), Opf(<<"c", ".", "o", "p", "f">>, Title1, Author1),
              Opf(<<"z", ".", "o", "p", "f">>, Title2, Author2)>>]
  \* another book, which lies where the one above is copied to
  ELSE IF b = 2 THEN
  [path |-> PathX, epub |-> TRUE, zip |-> TRUE,
   File |-> <<Opf(<<"c", ".", "o", "p", "f">>, Title2, Author2)>>]
  \* a book that lies in the output directory under its own sanitized name
  ELSE IF b = 3 THEN
  [path |-> PathO, epub |-> TRUE, zip |-> TRUE,
   File |-> <<Opf(DotOpf, Title2, Author2)>>]
  \* a book whose descriptor declares neither title nor creator
  ELSE IF b = 4 THEN
  [path |-> NameE, epub |-> TRUE, zip |-> TRUE,
   File |-> <<Entry(<<"c", ".", "o", "p", "f">>, TRUE, TRUE, NoFields)>>]
  \* an archive without descriptor: no name ends in ".opf"
  ELSE IF b = 5 THEN
  [path |-> NameN, epub |-> TRUE, zip |-> TRUE,
   File |-> <<Other(<<"o", "p", "f">>), Other(<<".", "O", "P", "F">>),
              Opf(<<".", "o", "p", "f", "x">>, Title1, Author1)>>]
  \* the first descriptor cannot be opened, a second one is fine
  ELSE IF b = 6 THEN
  [path |-> NameU, epub |-> TRUE, zip |-> TRUE,
   File |-> <<Entry(<<"c", ".", "o", "p", "f">>, FALSE, TRUE, [title |-> Title1, creator |-> Author1]),
              Opf(<<"z", ".", "o", "p", "f">>, Title2, Author2)>>]
  \* the first descriptor is malformed, a second one is fine
  ELSE IF b = 7 THEN
  [path |-> NameB, epub |-> TRUE, zip |-> TRUE,
   File |-> <<Entry(<<"c", ".", "o", "p", "f">>, TRUE, FALSE, NoFields),
              Opf(<<"z", ".", "o", "p", "f">>, Title2, Author2)>>]
  \* epub signature, but no readable zip
  ELSE IF b = 8 THEN
  [path |-> NameK, epub |-> TRUE, zip |-> FALSE, File |-> <<>>]
  \* not an epub
  ELSE
  [path |-> NameT, epub |-> FALSE, zip |-> FALSE, File |-> <<>>]

\* the content of the b-th file: two chunks found nowhere else, each named by
\* its file and its place in it
Content(b) == <<<<b, 1>>, <<b, 2>>>>
\* what a write past the end of a file leaves in between
Zeros == <<0, 0>>
\* the file a chunk comes from, and whether it is that file's first chunk
Origin(c) == c[1]
IsHeader(c) == c # Zeros /\ c[2] = 1

RegularFile(data) == [kind |-> "file", data |-> data]
Directory == [kind |-> "dir", data |-> <<>>]

\* the paths that may be given on the command line: those of InputFiles, in
\* its order, and NameM, which does not exist
InputPaths == <<NameA, PathX, PathO, NameE, NameN, NameU, NameB, NameK, NameT, NameM>>

\* the disk main() starts on: the directory DirO and the files of InputFiles
InitPaths == {DirO, NameA, PathX, PathO, NameE, NameN, NameU, NameB, NameK, NameT}
\* the place of a file's path in InputPaths
PlaceOf(p) ==
  IF p = NameA THEN 1 ELSE IF p = PathX THEN 2 ELSE IF p = PathO THEN 3
  ELSE IF p = NameE THEN 4 ELSE IF p = NameN THEN 5 ELSE IF p = NameU THEN 6
  ELSE IF p = NameB THEN 7 ELSE IF p = NameK THEN 8 ELSE 9
Initially(p) == IF p = DirO THEN Directory ELSE RegularFile(Content(PlaceOf(p)))
InitDisk == [p \in InitPaths |-> Initially(p)]
OutputArgs == {DirO, NameT, NameM}

\* mimetype.DetectFile: an error when the path cannot be read, else the type
\* the signature at the start of the content gives
DetectFile(d, file) ==
  IF file \notin DOMAIN d \/ d[file].kind # "file" THEN [mtype |-> "", err |-> "open"]
  ELSE LET data == d[file].data IN
    [mtype |-> IF data # <<>> /\ IsHeader(data[1]) /\ InputFiles(Origin(data[1])).epub
               THEN EpubMime ELSE "text/plain",
     err |-> "nil"]

\* zip.OpenReader: the central directory is read when the file is opened
OpenReader(d, file) ==
  IF file \notin DOMAIN d \/ d[file].kind # "file" THEN [File |-> <<>>, data |-> <<>>, err |-> "open"]
  ELSE LET data == d[file].data IN
    IF /\ data # <<>> /\ IsHeader(data[1]) /\ data = Content(Origin(data[1]))
       /\ InputFiles(Origin(data[1])).zip
    THEN [File |-> InputFiles(Origin(data[1])).File, data |-> data, err |-> "nil"]
    ELSE [File |-> <<>>, data |-> <<>>, err |-> "zip: not a valid zip file"]

\* os.Stat + IsDir
isDirectoryMut(d, path) ==
  IF path \notin DOMAIN d THEN [isDir |-> FALSE, err |-> "stat"]
  ELSE [isDir |-> TRUE, err |-> "nil"]
isDirectory(d, path) ==
  IF path \notin DOMAIN d THEN [isDir |-> FALSE, err |-> "stat"]
  ELSE [isDir |-> d[path].kind = "dir", err |-> "nil"]

\* os.Create: the file exists and is empty afterwards (O_CREATE|O_TRUNC)
CreateKeepMut(d, path) ==
  [p \in DOMAIN d \cup {path} |-> IF p = path /\ p \notin DOMAIN d THEN RegularFile(<<>>) ELSE d[p]]
Create(d, path) ==
  [p \in DOMAIN d \cup {path} |-> IF p = path THEN RegularFile(<<>>) ELSE d[p]]

\* a write of chunk c at offset off (0-based); a gap left by a truncation is
\* filled with zeros
WriteAt(data, off, c) ==
  [k \in 1..(IF off + 1 > Len(data) THEN off + 1 ELSE Len(data)) |->
     IF k = off + 1 THEN c ELSE IF k <= Len(data) THEN data[k] ELSE Zeros]

\* ------------------------------------------------------------- state
VARIABLES
  args,       \* os.Args[1:]: the output directory, then the input paths
  disk,       \* the file system: path -> node
  mainPc,     \* where main() is
  exitCode,   \* the process's exit status, -1 while it runs
  launched,   \* goroutines started by the loop of line 192
  i,          \* the receive loop's counter (line 196)
  results,    \* the map of line 186
  task,       \* the goroutines: task[k] runs run(files[k], ...)
  received,   \* for each path, the outcomes main took from resultsChan, in order
  tally,      \* succeeded, failed and the status lines printed
  book,       \* the argument of a sanitizeData call on its own
  name,       \* its result
  prior       \* what an earlier run of the process on the same inputs left

vars == <<args, disk, mainPc, exitCode, launched, i, results, task, received,
          tally, book, name, prior>>

Tasks == 1..MaxFiles
files == SubSeq(args, 2, Len(args))
outputDirectory == args[1]

NoResults == [p \in {} |-> FALSE]
NoneReceived == [p \in {} |-> <<>>]
NoTally == [succeeded |-> 0, failed |-> 0, lines |-> {}]
NoName == ""
NoPrior == [run |-> FALSE, results |-> NoResults, failed |-> <<>>, output |-> NoResults]

\* a goroutine not started yet
Unborn ==
  [pc |-> "unborn", file |-> "", f |-> "nil", zdata |-> <<>>, rc |-> "nil",
   data |-> EmptyBookData,
   filename |-> NoName, fout |-> "nil", fin |-> "nil", off |-> 0, ok |-> FALSE,
   failed |-> ""]

\* the command lines: none, or an output directory and up to MaxFiles input
\* paths.  The goroutines are interchangeable and none depends on its place in
\* the list, so the inputs are listed in the order of InputPaths.
FileLists(paths) ==
  UNION {{[j \in 1..n |-> paths[s[j]]] :
            s \in {t \in [1..n -> DOMAIN paths] : \A j \in 1..(n - 1) : t[j] <= t[j + 1]}} :
         n \in 0..MaxFiles}

ArgLists(paths) ==
  {<<>>} \cup {<<o>> \o fs : o \in OutputArgs, fs \in FileLists(paths)}

InitWith(paths) ==
  /\ args \in ArgLists(paths)
  /\ disk = InitDisk
  /\ mainPc = "args"
  /\ exitCode = -1
  /\ launched = 0
  /\ i = 0
  /\ results = NoResults
  /\ task = [k \in Tasks |-> Unborn]
  /\ received = NoneReceived
  /\ tally = NoTally
  /\ book = EmptyBookData
  /\ name = NoName
  /\ prior = NoPrior

Init == InitWith(InputPaths)

\* ------------------------------------------------------------- main()
\* lines 170-173: too few arguments
TooFewArgs(a) == Len(a) + 1 < 3

CheckArgs ==
  /\ mainPc = "args"
  /\ IF TooFewArgs(args)
     THEN mainPc' = "exited" /\ exitCode' = 1
     ELSE mainPc' = "stat" /\ exitCode' = exitCode
  /\ UNCHANGED <<args, disk, launched, i, results, task, received, tally, book, name, prior>>

\* lines 175-190: the output directory must exist and be a directory
CheckDir ==
  /\ mainPc = "stat"
  /\ \E r \in {isDirectory(disk, outputDirectory)} :
       IF r.err # "nil" \/ ~r.isDir
       THEN mainPc' = "exited" /\ exitCode' = 1
       ELSE mainPc' = "launch" /\ exitCode' = exitCode
  /\ UNCHANGED <<args, disk, launched, i, results, task, received, tally, book, name, prior>>

\* line 196: i < len(files)
ReceivesLeftOnceMut(n, fs) == n < 1 /\ n < Len(fs)
ReceivesLeftMut(n, fs) == n + 1 < Len(fs)
ReceivesLeft(n, fs) == n < Len(fs)

\* lines 192-194: go run(file, outputDirectory, resultsChan); after the last
\* one main enters the receive loop of line 196
Launch ==
  /\ mainPc = "launch"
  /\ launched < Len(files)
  /\ launched' = launched + 1
  /\ task' = [task EXCEPT ![launched + 1] =
                [Unborn EXCEPT !.pc = "detect", !.file = files[launched + 1]]]
  /\ mainPc' = IF launched + 1 < Len(files) THEN "launch"
               ELSE IF ReceivesLeft(0, files) THEN "recv" ELSE "report"
  /\ UNCHANGED <<args, disk, exitCode, i, results, received, tally, book, name, prior>>

\* line 198: results[result.string] = result.bool
StoreSpreadMut(m, file, ok) == [p \in DOMAIN m \cup {file} |-> ok]
StoreMut(m, file, ok) ==
  IF file \in DOMAIN m THEN m
  ELSE [p \in DOMAIN m \cup {file} |-> IF p = file THEN ok ELSE m[p]]
Store(m, file, ok) ==
  [p \in DOMAIN m \cup {file} |-> IF p = file THEN ok ELSE m[p]]

\* the message {file, ok} joins those received for its path
Logged(log, file, ok) ==
  [p \in DOMAIN log \cup {file} |->
     IF p = file
     THEN (IF p \in DOMAIN log THEN log[p] ELSE <<>>) \o <<ok>>
     ELSE log[p]]

\* lines 196-199 with the send of run(): the channel is unbuffered, so a send
\* and a receive happen together
Recv(k) ==
  /\ mainPc = "recv"
  /\ ReceivesLeft(i, files)
  /\ task[k].pc = "send"
  /\ results' = Store(results, task[k].file, task[k].ok)
  /\ received' = Logged(received, task[k].file, task[k].ok)
  /\ i' = i + 1
  /\ mainPc' = IF ReceivesLeft(i + 1, files) THEN "recv" ELSE "report"
  /\ task' = [task EXCEPT ![k].pc = "return"]
  /\ UNCHANGED <<args, disk, exitCode, launched, tally, book, name, prior>>

\* lines 201-214
TallyMut(m) ==
  [succeeded |-> Cardinality({p \in DOMAIN m : m[p]}),
   failed |-> Len(files) - Cardinality({p \in DOMAIN m : m[p]}),
   lines |-> {<<p, m[p]>> : p \in DOMAIN m}]
Tally(m) ==
  [succeeded |-> Cardinality({p \in DOMAIN m : m[p]}),
   failed |-> Cardinality({p \in DOMAIN m : ~m[p]}),
   lines |-> {<<p, m[p]>> : p \in DOMAIN m}]

Report ==
  /\ mainPc = "report"
  /\ tally' = Tally(results)
  /\ mainPc' = "return"
  /\ UNCHANGED <<args, disk, exitCode, launched, i, results, task, received, book, name, prior>>

\* line 215: main returns, the process ends with status 0 and its goroutines with it
ReturnStatusMut(t) == IF t.failed > 0 THEN 1 ELSE 0
\* main has no os.Exit after its checks: whatever the counts, it returns
ReturnStatus(t) == 0

Exit ==
  /\ mainPc = "return"
  /\ mainPc' = "exited"
  /\ exitCode' = ReturnStatus(tally)
  /\ UNCHANGED <<args, disk, launched, i, results, task, received, tally, book, name, prior>>

\* ------------------------------------------------------------- run()
\* a goroutine runs as long as the process does
Running(k) == mainPc # "exited" /\ task[k].pc \notin {"unborn", "done"}

\* every failure branch: log, result <- {file, false}, return
FailOnMut(t, stage) == [t EXCEPT !.ok = FALSE, !.failed = stage]
FailMut(t, stage) == [t EXCEPT !.pc = "done", !.ok = FALSE, !.failed = stage]
Fail(t, stage) == [t EXCEPT !.pc = "send", !.ok = FALSE, !.failed = stage]

\* line 79
WrongTypeMut(mtype) == FALSE
WrongType(mtype) == mtype # EpubMime

\* lines 69-86: classification
Detect(k) ==
  /\ Running(k) /\ task[k].pc = "detect"
  /\ \E r \in {DetectFile(disk, task[k].file)} :
       task' = [task EXCEPT ![k] =
                  IF r.err # "nil" THEN Fail(@, "detect")
                  ELSE IF WrongType(r.mtype) THEN Fail(@, "mime")
                  ELSE [@ EXCEPT !.pc = "zip"]]
  /\ UNCHANGED <<args, disk, mainPc, exitCode, launched, i, results, received, tally, book, name, prior>>

\* lines 90-99: zip.OpenReader; the handle is closed when run() returns
OpenZip(k) ==
  /\ Running(k) /\ task[k].pc = "zip"
  /\ \E r \in {OpenReader(disk, task[k].file)} :
       task' = [task EXCEPT ![k] =
                  IF r.err # "nil" THEN Fail(@, "zip")
                  ELSE [@ EXCEPT !.pc = "read", !.f = "open", !.zdata = r.data]]
  /\ UNCHANGED <<args, disk, mainPc, exitCode, launched, i, results, received, tally, book, name, prior>>

\* the archive behind an open handle: the entries read when it was opened, and
\* whether the file still holds what it held then
Handle(d, t) ==
  [File |-> InputFiles(Origin(t.zdata[1])).File,
   intact |-> t.file \in DOMAIN d /\ d[t.file].data = t.zdata]

\* line 102
MetaFailedMut(err) == FALSE
MetaFailed(err) == err # "nil"

\* line 113
EmptyName(filename) == filename = ""

\* lines 101-120: readEpubData, then sanitizeData and the test for an empty
\* name, which read nothing but the goroutine's own data
ReadData(k) ==
  /\ Running(k) /\ task[k].pc = "read"
  /\ \E r \in {readEpubData(Handle(disk, task[k]))} :
     \E filename \in {sanitizeData(r.data)} :
       task' = [task EXCEPT ![k] =
                  IF MetaFailed(r.err) THEN Fail([@ EXCEPT !.rc = r.rc], "meta")
                  ELSE IF EmptyName(filename)
                       THEN Fail([@ EXCEPT !.data = r.data, !.rc = r.rc], "empty")
                  ELSE [@ EXCEPT !.pc = "create", !.data = r.data, !.rc = r.rc,
                                 !.filename = filename]]
  /\ UNCHANGED <<args, disk, mainPc, exitCode, launched, i, results, received, tally, book, name, prior>>

\* the destination of line 122
Destination(dir, filename) == Join(dir, filename)

\* lines 122-131: os.Create; it can fail (permissions, no space, ...)
CreateOut(k) ==
  /\ Running(k) /\ task[k].pc = "create"
  /\ \E ioerr \in BOOLEAN :
       IF ioerr
       THEN /\ task' = [task EXCEPT ![k] = Fail(@, "create")]
            /\ disk' = disk
       ELSE /\ task' = [task EXCEPT ![k] = [@ EXCEPT !.pc = "open", !.fout = "open"]]
            /\ disk' = Create(disk, Destination(outputDirectory, task[k].filename))
  /\ UNCHANGED <<args, mainPc, exitCode, launched, i, results, received, tally, book, name, prior>>

\* lines 133-142: os.Open of the input
OpenIn(k) ==
  /\ Running(k) /\ task[k].pc = "open"
  /\ \E ioerr \in BOOLEAN :
       task' = [task EXCEPT ![k] =
                  IF ioerr \/ task[k].file \notin DOMAIN disk THEN Fail(@, "open")
                  ELSE [@ EXCEPT !.pc = "copy", !.fin = "open", !.off = 0]]
  /\ UNCHANGED <<args, disk, mainPc, exitCode, launched, i, results, received, tally, book, name, prior>>

\* io.Copy is at the end of the input
AtEOFMut(data, off) == off >= 1 \/ off >= Len(data)
AtEOF(data, off) == off >= Len(data)

\* lines 144-157: io.Copy, one chunk a step: both handles are at offset off;
\* a read or a write can fail; at the end of the input the copy succeeded
Copy(k) ==
  /\ Running(k) /\ task[k].pc = "copy"
  /\ LET in == disk[task[k].file].data
         dest == Destination(outputDirectory, task[k].filename)
         off == task[k].off
     IN IF AtEOF(in, off)
        THEN /\ task' = [task EXCEPT ![k] = [@ EXCEPT !.pc = "send", !.ok = TRUE]]
             /\ disk' = disk
        ELSE \E ioerr \in BOOLEAN :
          IF ioerr
          THEN /\ task' = [task EXCEPT ![k] = Fail(@, "copy")]
               /\ disk' = disk
          ELSE /\ task' = [task EXCEPT ![k].off = off + 1]
               /\ disk' = [disk EXCEPT ![dest] =
                             RegularFile(WriteAt(disk[dest].data, off, in[off + 1]))]
  /\ UNCHANGED <<args, mainPc, exitCode, launched, i, results, received, tally, book, name, prior>>

\* the deferred Close calls (lines 99, 131, 142) run when run() returns, after
\* the send
Closed(h) == IF h = "open" THEN "closed" ELSE h

Return(k) ==
  /\ Running(k) /\ task[k].pc = "return"
  /\ task' = [task EXCEPT ![k] =
                [@ EXCEPT !.pc = "done", !.f = Closed(@), !.fout = Closed(@), !.fin = Closed(@)]]
  /\ UNCHANGED <<args, disk, mainPc, exitCode, launched, i, results, received, tally, book, name, prior>>

Next ==
  \/ CheckArgs
  \/ CheckDir
  \/ Launch
  \/ \E k \in Tasks : Detect(k)
  \/ \E k \in Tasks : OpenZip(k)
  \/ \E k \in Tasks : ReadData(k)
  \/ \E k \in Tasks : CreateOut(k)
  \/ \E k \in Tasks : OpenIn(k)
  \/ \E k \in Tasks : Copy(k)
  \/ \E k \in Tasks : Recv(k)
  \/ \E k \in Tasks : Return(k)
  \/ Report
  \/ Exit

Spec == Init /\ [][Next]_vars
\* the same behaviours, for the properties of run: what a goroutine does to
\* the files and to its handles
SpecRun == Init /\ [][Next]_vars

\* the Go scheduler runs a goroutine that can run, and main receives when a
\* sender waits
\* Under it the command lines name a book and a file that is no epub.
LivePaths == <<NameA, NameT>>
FairSpec == InitWith(LivePaths) /\ [][Next]_vars /\ WF_vars(Next)

\* ------------------------------------------------ sanitizeData on its own
\* the characters titles and authors are drawn from, and the texts up to
\* MaxLen characters
Alphabet == {"a", "Z", "7", "!"}
Texts == UNION {[1..n -> Alphabet] : n \in 0..MaxLen}

TheHobbit == BookData(<<"T", "h", "e", " ", "H", "o", "b", "b", "i", "t", "!">>,
                      <<"J", ".", "R", ".", "R", ".", " ", "T", "o", "l", "k", "i", "e", "n">>)

InitSanitize ==
  /\ args = <<>>
  /\ disk = InitDisk
  /\ mainPc = "args"
  /\ exitCode = -1
  /\ launched = 0
  /\ i = 0
  /\ results = NoResults
  /\ task = [k \in Tasks |-> Unborn]
  /\ received = NoneReceived
  /\ tally = NoTally
  /\ book \in {BookData(t, a) : t \in Texts, a \in Texts}
              \cup {TheHobbit, BookData(Title1, Author1), BookData(Title2, Author2)}
  /\ name = NoName
  /\ prior = NoPrior

\* filename := sanitizeData(&data)
SanitizeCall ==
  /\ name = NoName
  /\ name' = sanitizeData(book)
  /\ UNCHANGED <<args, disk, mainPc, exitCode, launched, i, results, task, received, tally, book, prior>>

NextSanitize == SanitizeCall

SpecSanitize == InitSanitize /\ [][NextSanitize]_vars

\* ------------------------------------------- the process run a second time
\* the disk with an empty output directory, and the input paths outside it
EmptyOutDisk == [p \in InitPaths \ {PathX, PathO} |-> Initially(p)]
OutsidePaths == {NameA, NameE, NameN, NameU, NameB, NameK, NameT, NameM}

\* one input, copied into an empty output directory
InitRerun ==
  /\ args \in {<<DirO, p>> : p \in OutsidePaths}
  /\ disk = EmptyOutDisk
  /\ mainPc = "args"
  /\ exitCode = -1
  /\ launched = 0
  /\ i = 0
  /\ results = NoResults
  /\ task = [k \in Tasks |-> Unborn]
  /\ received = NoneReceived
  /\ tally = NoTally
  /\ book = EmptyBookData
  /\ name = NoName
  /\ prior = NoPrior

\* the files of the output directory
Output(d) == [p \in DOMAIN d \ DOMAIN EmptyOutDisk |-> d[p].data]

\* after the process exited, what it reported and left is noted, the output
\* directory is emptied and the process is started again with the same
\* command line; the inputs are as they were
Rerun ==
  /\ mainPc = "exited" /\ exitCode = 0
  /\ ~prior.run
  /\ \A p \in DOMAIN EmptyOutDisk : disk[p] = EmptyOutDisk[p]
  /\ prior' = [run |-> TRUE, results |-> results,
               failed |-> [k \in 1..Len(files) |-> task[k].failed],
               output |-> Output(disk)]
  /\ disk' = EmptyOutDisk
  /\ mainPc' = "args"
  /\ exitCode' = -1
  /\ launched' = 0
  /\ i' = 0
  /\ results' = NoResults
  /\ task' = [k \in Tasks |-> Unborn]
  /\ received' = NoneReceived
  /\ tally' = NoTally
  /\ UNCHANGED <<args, book, name>>

NextRerun ==
  \/ Next
  \/ Rerun

SpecRerun == InitRerun /\ [][NextRerun]_vars

\* ================================================================ claims
\* the command line passes main's checks of lines 170-183
ValidArgs == ~TooFewArgs(args) /\ isDirectory(InitDisk, args[1]).isDir
Born == {k \in Tasks : task[k].pc # "unborn"}
Exited == mainPc = "exited"
Reported == mainPc \in {"return", "exited"} /\ exitCode \in {-1, 0}

\* C1, as claimed: with an output directory and K >= 0 input paths the process
\* ends only after the Orchestrator made its K receives and reported
C1_AsClaimed ==
  (Len(args) >= 1 /\ isDirectory(InitDisk, args[1]).isDir /\ Exited)
    => (exitCode = 0 /\ i = Len(files))

\* C1, amended: with an output directory and K >= 1 input paths (with K = 0
\* main prints the usage and exits with status 1) the process never stops
\* before it exited, it exits only after exactly K receives and the report,
\* it does exit, and a goroutine that waits on its send is received from
C1_Collected ==
  /\ [](ValidArgs =>
         /\ (~Exited => ENABLED Next)
         /\ i <= Len(files)
         /\ (Reported => /\ i = Len(files)
                         /\ \A k \in 1..Len(files) : task[k].pc \in {"return", "done"}))
  /\ (ValidArgs => <>(Exited /\ exitCode = 0 /\ i = Len(files)))
  /\ \A k \in Tasks : (task[k].pc = "send") ~> (task[k].pc \in {"return", "done"})

\* the process ended after two goroutines were received from, one of which
\* failed
C1_Witness ==
  /\ Exited /\ exitCode = 0 /\ Len(files) >= 2 /\ i = Len(files)
  /\ \E k \in Born : ~task[k].ok
  /\ \E k \in Born : task[k].ok

\* main is past its receive loop
Collected == mainPc \in {"report", "return"} \/ (Exited /\ exitCode = 0)
InputSet == {files[j] : j \in 1..Len(files)}
TasksOf(p) == {k \in 1..Len(files) : task[k].file = p}

\* C2: once the receive loop is over the result map has exactly one entry for
\* each distinct input path and none for any other path, its size is the
\* number of distinct paths (K when the K paths differ), and the entry of a
\* path is the outcome of the report received last for that path, which a
\* goroutine launched for that path sent
C2_ResultMap ==
  Collected =>
    /\ DOMAIN results = InputSet
    /\ Cardinality(DOMAIN results) <= Len(files)
    /\ (\A j, k \in 1..Len(files) : j # k => files[j] # files[k])
         => Cardinality(DOMAIN results) = Len(files)
    /\ \A p \in InputSet :
         /\ Len(received[p]) = Cardinality(TasksOf(p))
         /\ results[p] = received[p][Len(received[p])]
         /\ \E k \in TasksOf(p) : task[k].ok = results[p]

\* a path given twice whose two goroutines reported differently: the map
\* holds one entry for it
C2_Witness ==
  /\ mainPc = "report"
  /\ \E p \in DOMAIN results :
       /\ Len(received[p]) = 2
       /\ received[p][1] # received[p][2]
       /\ Cardinality(DOMAIN results) = 1

\* the goroutine handed its outcome to main
Handed(k) == task[k].pc \in {"return", "done"}
Created(k) == task[k].fout # "nil"
DestOf(k) == Destination(outputDirectory, task[k].filename)
\* what the input files held when the process started
Bytes(p) == Initially(p).data
\* the name each book of InitDisk is to get, worked out by hand from its
\* first .opf entry: "Hi!" by "J. R", "?B  2" by "K", no title and no creator
Renamed(p) ==
  IF p = NameA THEN "Hi_-JR.epub"
  ELSE IF p \in {PathX, PathO} THEN "_B_2-K.epub"
  ELSE IF p = NameE THEN "-.epub"
  ELSE NoName

\* C3, as claimed: once the batch is over every goroutine that reported
\* Success has its destination in the output directory holding the bytes of
\* its input, whatever the other goroutines of the batch wrote
C3_AsClaimed ==
  Collected =>
    \A k \in 1..Len(files) :
      task[k].ok =>
        /\ DestOf(k) \in DOMAIN disk
        /\ disk[DestOf(k)].data = disk[task[k].file].data

\* no other goroutine created the destination of k, and none created a file
\* at the input path of k
Alone(k) ==
  /\ \A j \in 1..Len(files) : (j # k /\ Created(j)) => DestOf(j) # DestOf(k)
  /\ \A j \in 1..Len(files) : Created(j) => DestOf(j) # task[k].file

\* C3, amended: once the batch is over, a goroutine that reported Success,
\* whose destination no other goroutine created and whose input no goroutine
\* created a file over, has left in the output directory the file
\* <title>-<author>.epub holding exactly the bytes of its input, and the
\* input is as it was
C3_ExactCopy ==
  Collected =>
    \A k \in 1..Len(files) :
      (task[k].ok /\ Alone(k)) =>
        /\ task[k].filename = Renamed(task[k].file)
        /\ DestOf(k) = Join(DirO, Renamed(task[k].file))
        /\ DestOf(k) \in DOMAIN disk
        /\ disk[DestOf(k)].kind = "file"
        /\ disk[DestOf(k)].data = Bytes(task[k].file)
        /\ disk[task[k].file].data = Bytes(task[k].file)

\* two books with different destinations were both copied
C3_Witness ==
  /\ Collected /\ Len(files) = 2
  /\ task[1].ok /\ task[2].ok /\ Alone(1) /\ Alone(2)
  /\ DestOf(1) # DestOf(2)
  /\ disk[DestOf(1)].data = Content(1)

\* position k of text t opens a maximal run of characters outside [a-zA-Z0-9]
OpensRun(t, k) ==
  /\ t[k] \notin (Lower \cup Upper \cup Digit)
  /\ (k = 1 \/ t[k - 1] \in (Lower \cup Upper \cup Digit))

\* text t from position k on, every character of [a-zA-Z0-9] kept and every
\* maximal run of other characters written as mark once
RECURSIVE RunsAs(_, _, _)
RunsAs(t, mark, k) ==
  IF k > Len(t) THEN ""
  ELSE (IF t[k] \in (Lower \cup Upper \cup Digit) THEN t[k]
        ELSE IF OpensRun(t, k) THEN mark ELSE "") \o RunsAs(t, mark, k + 1)

\* C4: sanitizeData returns S_t + "-" + S_a + ".epub", S_t the title with
\* every maximal run of characters outside [a-zA-Z0-9] replaced by one
\* underscore and S_a the author with every such run deleted; "The Hobbit!"
\* by "J.R.R. Tolkien" gives "The_Hobbit_-JRRTolkien.epub"
C4_Sanitized ==
  name # NoName =>
    /\ name = RunsAs(book.Title, "_", 1) \o "-" \o RunsAs(book.Author, "", 1) \o ".epub"
    /\ book = TheHobbit => name = "The_Hobbit_-JRRTolkien.epub"
    /\ (book.Title = <<"a", "!", "!">> /\ book.Author = <<"!", "Z", "!">>)
         => name = "a_-Z.epub"

\* the name of "The Hobbit!" by "J.R.R. Tolkien" was computed
C4_Witness ==
  /\ book = TheHobbit
  /\ name # NoName

\* the goroutine read its metadata (lines 101-109 passed) and found neither a
\* title nor an author
EmptyMeta(k) ==
  /\ task[k].pc \notin {"unborn", "detect", "zip", "read"}
  /\ task[k].failed \notin {"detect", "mime", "zip", "meta"}
  /\ task[k].data = EmptyBookData

\* C5, as claimed: a goroutine whose metadata title and author are both empty
\* is rejected for its empty name: it reports Failure and creates no output
\* file
C5_AsClaimed ==
  \A k \in Born :
    EmptyMeta(k) =>
      /\ task[k].pc \in {"send", "return", "done"}
      /\ task[k].failed = "empty"
      /\ ~task[k].ok
      /\ task[k].fout = "nil"
      /\ Join(outputDirectory, "-.epub") \notin DOMAIN disk

\* the steps of run before os.Create: classification (lines 69-88), container
\* open (90-98), metadata (101-109), name (112-120)
Early == {"detect", "mime", "zip", "meta", "empty"}
\* input paths that hold no epub whatever the goroutines write: t is a text
\* file outside the output directory, m does not exist
NoEpub == {NameT, NameM}

\* C6: a goroutine whose input is not classified as application/epub+zip, or
\* cannot be classified, fails at the classification and reports Failure; a
\* goroutine that failed at classification, container open, metadata or name
\* reports Failure and never held a destination; and the file system is as
\* at the start as long as no goroutine got past these four steps to create
\* its destination
C6_NoCreation ==
  /\ \A k \in Born :
       /\ (task[k].file \in NoEpub /\ task[k].pc # "detect")
            => /\ task[k].failed = (IF task[k].file = NameM THEN "detect" ELSE "mime")
               /\ task[k].pc \in {"send", "return", "done"}
       /\ task[k].failed \in Early
            => /\ ~task[k].ok
               /\ task[k].fout = "nil" /\ task[k].fin = "nil"
               /\ task[k].pc \in {"send", "return", "done"}
               /\ (Handed(k) => Len(received[task[k].file]) >= 1)
       /\ (task[k].failed \in Early /\ Collected /\ Cardinality(TasksOf(task[k].file)) = 1)
            => results[task[k].file] = FALSE
       /\ Created(k) => task[k].pc \notin {"detect", "zip", "read", "create"}
  /\ (\A k \in Born : ~Created(k)) => disk = InitDisk

\* a text file and a missing path were given: both goroutines failed at the
\* classification, the batch is over and no file was touched
C6_Witness ==
  /\ Collected
  /\ files = <<NameT, NameM>>
  /\ task[1].failed = "mime" /\ task[2].failed = "detect"
  /\ disk = InitDisk

\* the places, in stored order, of the entries of an archive whose name ends
\* with ".opf"
OpfPlaces(entries) ==
  {j \in 1..Len(entries) :
     \E nm \in {entries[j].Name} : \E n \in {Len(nm)} :
       /\ n >= 4
       /\ nm[n - 3] = "." /\ nm[n - 2] = "o" /\ nm[n - 1] = "p" /\ nm[n] = "f"}
FirstPlace(S) == CHOOSE j \in S : \A m \in S : j <= m
\* the archive the goroutine opened
Archive(k) == InputFiles(Origin(task[k].zdata[1])).File
PastRead(k) == task[k].pc \notin {"unborn", "detect", "zip", "read"} /\ task[k].f # "nil"

\* C7: a goroutine that opened an archive takes its metadata from the first
\* entry, in stored order, whose name ends with ".opf" and from no other: an
\* archive without such an entry makes it fail at the metadata, so does a
\* first such entry that cannot be opened or decoded, whatever later entries
\* hold, and otherwise title and author are those of that first entry (or
\* the read failed because a goroutine of the batch created a file over the
\* open archive)
C7_FirstOpf ==
  \A k \in Born :
    PastRead(k) =>
      \E ar \in {Archive(k)} : \E S \in {OpfPlaces(ar)} :
        IF S = {}
        THEN task[k].failed = "meta" /\ ~task[k].ok /\ task[k].fout = "nil"
        ELSE \E e \in {ar[FirstPlace(S)]} :
               IF ~e.opens \/ ~e.wellformed
               THEN task[k].failed = "meta" /\ ~task[k].ok /\ task[k].fout = "nil"
                    /\ task[k].data = EmptyBookData
               ELSE \/ /\ task[k].failed = "meta"
                       /\ \E j \in Born : Created(j) /\ DestOf(j) = task[k].file
                    \/ /\ task[k].failed # "meta"
                       /\ task[k].data.Title =
                            (IF "title" \in DOMAIN e.fields THEN e.fields.title ELSE <<>>)
                       /\ task[k].data.Author =
                            (IF "creator" \in DOMAIN e.fields THEN e.fields.creator ELSE <<>>)

\* a batch of two ran to its end: an archive without an .opf entry (its
\* names miss the suffix narrowly) or one whose first .opf entry cannot be
\* opened, and one whose first .opf entry is no XML while its second is good;
\* both failed at the metadata
C7_Witness ==
  /\ Collected /\ Len(files) = 2
  /\ task[1].file \in {NameN, NameU} /\ task[2].file = NameB
  /\ task[1].failed = "meta" /\ task[2].failed = "meta"
  /\ Cardinality(OpfPlaces(Archive(2))) = 2

\* the steps of run that fail only when the operating system refuses
IOStages == {"create", "open", "copy"}
\* the inputs of InitDisk that are books with a readable descriptor, and the
\* step at which run gives up each of the others
IsBook(p) == p \in {NameA, PathX, PathO, NameE}
GivesUpAt(p) ==
  IF p = NameM THEN "detect"
  ELSE IF p = NameT THEN "mime"
  ELSE IF p = NameK THEN "zip"
  ELSE IF p \in {NameN, NameU, NameB} THEN "meta"
  ELSE ""
\* the outcome of run on input p by itself, unless the operating system
\* refuses a step
AsAlone(k) ==
  IF task[k].failed \in IOStages THEN ~task[k].ok
  ELSE /\ task[k].ok = IsBook(task[k].file)
       /\ task[k].failed = GivesUpAt(task[k].file)

DistinctPaths == \A j, k \in 1..Len(files) : j # k => files[j] # files[k]
DistinctNames ==
  \A j, k \in 1..Len(files) :
    (j # k /\ IsBook(files[j]) /\ IsBook(files[k])) => Renamed(files[j]) # Renamed(files[k])
\* no input lies where another input is copied to
NoInputOverwritten ==
  \A j, k \in 1..Len(files) :
    (j # k /\ IsBook(files[k])) => files[j] # Join(outputDirectory, Renamed(files[k]))

\* C8, as claimed: every goroutine is launched and hands over an outcome,
\* and when the paths differ and the destination names differ the outcome of
\* each is what it is for that input alone
C8_AsClaimed ==
  Collected =>
    /\ \A k \in 1..Len(files) : Handed(k) /\ task[k].file = files[k]
    /\ (DistinctPaths /\ DistinctNames) => \A k \in 1..Len(files) : AsAlone(k)

\* C8, amended: a goroutine is done only after main took its outcome,
\* whether it failed or not; once the receive loop is over every input path
\* had its goroutine launched and its outcome taken; and when the paths
\* differ, the destination names differ and no input lies at the destination
\* of another input, the outcome of each goroutine is what it is for that
\* input alone, whatever the others did
C8_Independent ==
  /\ Born = 1..launched
  /\ Cardinality({k \in Born : Handed(k)}) = i
  /\ Collected =>
       /\ launched = Len(files)
       /\ \A k \in 1..Len(files) : Handed(k) /\ task[k].file = files[k]
       /\ (DistinctPaths /\ DistinctNames /\ NoInputOverwritten)
            => \A k \in 1..Len(files) : AsAlone(k)

\* a book was copied although the goroutine launched next to it failed at
\* the metadata
C8_Witness ==
  /\ Collected /\ Len(files) = 2
  /\ DistinctPaths /\ DistinctNames /\ NoInputOverwritten
  /\ task[1].ok /\ task[1].file = PathX
  /\ ~task[2].ok /\ task[2].failed = "meta"

\* the command line has its two arguments or more, and the first names no
\* directory of the disk the process starts on
BadOutput ==
  /\ ~TooFewArgs(args)
  /\ (outputDirectory \notin InitPaths \/ Initially(outputDirectory).kind # "dir")

\* C9: when the output directory argument does not exist or is no directory,
\* main exits with status 1 from its check of the directory: no goroutine is
\* ever launched, nothing is received or reported, no input is opened and
\* the file system stays as it was
C9_BadOutput ==
  BadOutput =>
    /\ mainPc \in {"args", "stat", "exited"}
    /\ (Exited => exitCode = 1)
    /\ (~Exited => exitCode = -1)
    /\ launched = 0 /\ Born = {} /\ i = 0
    /\ \A k \in Tasks : task[k] = Unborn
    /\ results = NoResults /\ received = NoneReceived /\ tally = NoTally
    /\ disk = InitDisk

\* the process exited with status 1 with two books on its command line, the
\* output argument being a regular file
C9_Witness ==
  /\ Exited /\ exitCode = 1
  /\ BadOutput
  /\ outputDirectory = NameT
  /\ files = <<NameA, NameE>>

\* C10: when the process is run twice on the same unchanged input, each time
\* into an empty output directory, and the operating system refuses no
\* create, open or copy, both runs report the same outcome and leave the
\* same files with the same bytes in the output directory: for a book the
\* one file <title>-<author>.epub holding the bytes of the input, else none
C10_Idempotent ==
  (/\ prior.run /\ Exited /\ exitCode = 0
   /\ prior.failed[1] \notin IOStages /\ task[1].failed \notin IOStages)
    => /\ Output(disk) = prior.output
       /\ results = prior.results
       /\ task[1].failed = prior.failed[1]
       /\ IF IsBook(files[1])
          THEN /\ results[files[1]]
               /\ DOMAIN Output(disk) = {Join(DirO, Renamed(files[1]))}
               /\ Output(disk)[Join(DirO, Renamed(files[1]))] = Bytes(files[1])
          ELSE /\ ~results[files[1]]
               /\ DOMAIN Output(disk) = {}

\* a book was copied twice, and the second copy lies in the output directory
C10_Witness ==
  /\ prior.run /\ Exited /\ exitCode = 0
  /\ files = <<NameA>>
  /\ prior.results[NameA] /\ results[NameA]
  /\ PathX \in DOMAIN disk
  /\ PathX \in DOMAIN prior.output

\* C11: once main's checks of its arguments passed, the process ends, and
\* with status 0, whether its goroutines reported Success or Failure, all
\* of them Failure included; and it never ends with another status
C11_ExitZero ==
  /\ [](ValidArgs => (exitCode \in {-1, 0} /\ (Exited <=> exitCode = 0)))
  /\ (ValidArgs => <>[](Exited /\ exitCode = 0 /\ tally = Tally(results)))

\* the process ended with status 0 after both of its goroutines failed
C11_Witness ==
  /\ Exited /\ exitCode = 0 /\ Len(files) = 2
  /\ \A k \in 1..2 : Handed(k) /\ ~task[k].ok
  /\ tally.failed >= 1 /\ tally.succeeded = 0

\* how far run has come
Step(pc) ==
  IF pc = "unborn" THEN 0 ELSE IF pc = "detect" THEN 1 ELSE IF pc = "zip" THEN 2
  ELSE IF pc = "read" THEN 3 ELSE IF pc = "create" THEN 4 ELSE IF pc = "open" THEN 5
  ELSE IF pc = "copy" THEN 6 ELSE IF pc = "send" THEN 7 ELSE IF pc = "return" THEN 8
  ELSE 9
AllStages == Early \cup IOStages

\* what one step of the process does about the message of goroutine k
OneSend(k) ==
  \* run only moves forward, and stays at a step only inside io.Copy
  /\ Step(task'[k].pc) >= Step(task[k].pc)
  /\ (task'[k] # task[k] /\ task'[k].pc = task[k].pc)
       => (task[k].pc = "copy" /\ task'[k].off = task[k].off + 1)
  \* it reaches its send from a failure branch or from the end of the copy,
  \* with its own path and the outcome of that branch
  /\ (task[k].pc # "send" /\ task'[k].pc = "send")
       => /\ task'[k].file = files[k]
          /\ task'[k].ok <=> (task'[k].failed = "")
          /\ task[k].failed = ""
  \* the send is one rendezvous with main, which takes that path and that
  \* outcome, and run ends after it
  /\ (task[k].pc = "send" /\ task'[k] # task[k])
       => /\ task'[k] = [task[k] EXCEPT !.pc = "return"]
          /\ i' = i + 1
          /\ files[k] \in DOMAIN received'
          /\ Len(received'[files[k]]) =
               (IF files[k] \in DOMAIN received THEN Len(received[files[k]]) ELSE 0) + 1
          /\ received'[files[k]][Len(received'[files[k]])] = task[k].ok
          /\ \A j \in Born \ {k} : task'[j] = task[j]
  \* nothing is received but what a goroutine sends
  /\ Step(task'[k].pc) < 8 => (task'[k].pc = "send" \/ task'[k].failed = "")
  /\ (Step(task[k].pc) >= 8) => (task'[k].ok = task[k].ok /\ task'[k].failed = task[k].failed)

\* C12: every goroutine sends exactly one message, its own path with a
\* boolean, on every path through run: a failure branch goes to its send at
\* once and run ends after the send, the success path sends once after the
\* copy, no step is taken twice, and main has taken as many messages for a
\* path as goroutines of that path are past their send
C12_OneMessage ==
  /\ [][\A k \in 1..Len(files) : OneSend(k)]_vars
  /\ [](/\ \A k \in Born : task[k].failed # "" =>
              (task[k].pc \in {"send", "return", "done"} /\ task[k].failed \in AllStages)
        /\ \A k \in Born : task[k].ok => task[k].pc \in {"send", "return", "done"}
        /\ \A p \in InputSet :
             Cardinality({k \in Born : task[k].file = p /\ Handed(k)})
               = (IF p \in DOMAIN received THEN Len(received[p]) ELSE 0)
        /\ DOMAIN received \subseteq InputSet
        /\ (Collected => \A k \in 1..Len(files) : Handed(k)))

\* the batch is over: one goroutine sent from the success path, the other
\* from the failure branch after the copy, and each message was taken once
C12_Witness ==
  /\ Collected /\ Len(files) = 2 /\ files[1] # files[2]
  /\ task[1].ok /\ task[2].failed = "copy"
  /\ Len(received[files[1]]) = 1 /\ Len(received[files[2]]) = 1

\* the handles run holds: the container, the destination, the input
Handles(k) == {task[k].f, task[k].fout, task[k].fin}

\* C13, as claimed: from the moment main starts reporting no goroutine is
\* still running: each has returned from run, its deferred releases of the
\* destination, input and container handles done
C13_AsClaimed ==
  Collected =>
    \A k \in 1..Len(files) : task[k].pc = "done" /\ "open" \notin Handles(k)

\* C13, amended: from the moment main starts reporting every goroutine has
\* handed over its outcome, so none is at a step before or at its send; its
\* deferred releases run after the send, and a goroutine that returned from
\* run holds no open handle
C13_AllHanded ==
  /\ Collected =>
       /\ Born = 1..Len(files)
       /\ \A k \in 1..Len(files) :
            /\ task[k].pc \in {"return", "done"}
            /\ task[k].pc = "done" => "open" \notin Handles(k)
  /\ \A k \in Born :
       (task[k].pc = "return" /\ task[k].failed \notin Early)
         => task[k].fout = (IF task[k].failed = "create" THEN "nil" ELSE "open")

\* main reports while a goroutine whose outcome it took has not yet run its
\* deferred Close calls, and another has
C13_Witness ==
  /\ mainPc = "report" /\ Len(files) = 2
  /\ task[1].pc = "return" /\ task[1].ok /\ task[1].fout = "open" /\ task[1].fin = "open"
  /\ task[2].pc = "done" /\ task[2].ok /\ task[2].fout = "closed"

\* C14: main is at its report, or past it, only after len(files) receives:
\* then every launched goroutine has handed over its outcome and every input
\* path had its goroutine launched; and once main is there it stays there
\* and the result map no longer changes
C14_ReportAfterReceives ==
  /\ [](Collected =>
          /\ i = Len(files) /\ launched = Len(files)
          /\ \A k \in Born : task[k].pc \notin {"detect", "zip", "read", "create", "open", "copy", "send"}
          /\ \A p \in DOMAIN received : Len(received[p]) = Cardinality(TasksOf(p)))
  /\ [](~Collected => tally = NoTally)
  /\ [][Collected => (Collected' /\ results' = results /\ received' = received /\ i' = i)]_vars

\* main is past its report of two different paths, each received once
C14_Witness ==
  /\ mainPc = "return" /\ i = 2
  /\ Cardinality(DOMAIN results) = 2
  /\ tally.lines # {}

\* goroutine k hands its message to main in this step, and no other
\* goroutine moves
Handover(k) ==
  /\ task[k].pc = "send" /\ task'[k] = [task[k] EXCEPT !.pc = "return"]
  /\ \A j \in Tasks \ {k} : task'[j] = task[j]

\* C15: the result map changes only in a step of main at its receive, which
\* takes the message of one goroutine and writes the one entry of that
\* message's path, leaving the other entries alone; every receive is such a
\* step; and a step of a goroutine other than the hand-over of its message
\* leaves the map as it is
C15_MapOwner ==
  /\ [][results' # results =>
          /\ mainPc = "recv" /\ i' = i + 1 /\ disk' = disk
          /\ \E k \in Born :
               /\ Handover(k)
               /\ DOMAIN results' = DOMAIN results \cup {task[k].file}
               /\ results'[task[k].file] = task[k].ok
               /\ \A p \in DOMAIN results \ {task[k].file} : results'[p] = results[p]]_vars
  /\ [][i' # i =>
          /\ mainPc = "recv" /\ i' = i + 1
          /\ \E k \in Born : Handover(k) /\ task[k].file \in DOMAIN results'
                             /\ results'[task[k].file] = task[k].ok]_vars
  /\ [][(\E k \in Tasks : task'[k] # task[k] /\ task[k].pc # "send")
          => (results' = results /\ i' = i /\ mainPc' \in {mainPc, "recv", "report"})]_vars

\* main received two messages and wrote two entries, a Success and a Failure
C15_Witness ==
  /\ mainPc = "report" /\ i = 2
  /\ \E p, q \in DOMAIN results : results[p] /\ ~results[q]

\* the chunks the file at path p held when the process started
PriorChunks(p) ==
  IF p \in InitPaths THEN {Bytes(p)[n] : n \in 1..Len(Bytes(p))} ELSE {}
ChunksAt(p) == {disk[p].data[n] : n \in 1..Len(disk[p].data)}

\* C16: a goroutine that failed after it created its destination, at the
\* reopening of its input or during the copy, reports Failure and removes
\* nothing: the destination stays in the output directory, nothing is left
\* in it of what a file of that name held before, and, when no other
\* goroutine wrote there, it holds the part of the input copied before the
\* failure, none or some of it but not all; and no file is ever removed
C16_LeftBehind ==
  /\ InitPaths \subseteq DOMAIN disk
  /\ \A p \in DOMAIN disk : disk[p].kind = (IF p = DirO THEN "dir" ELSE "file")
  /\ \A k \in Born :
       (task[k].failed = "open" \/ task[k].failed = "copy") =>
         /\ ~task[k].ok /\ task[k].pc \in {"send", "return", "done"}
         /\ Created(k)
         /\ (task[k].failed = "open" => task[k].off = 0 /\ task[k].fin = "nil")
         /\ DestOf(k) \in DOMAIN disk
         /\ disk[DestOf(k)].kind = "file"
         /\ ChunksAt(DestOf(k)) \cap PriorChunks(DestOf(k)) = {}
         /\ Alone(k) =>
              /\ task[k].off < Len(Bytes(task[k].file))
              /\ disk[DestOf(k)].data = SubSeq(Bytes(task[k].file), 1, task[k].off)
         /\ (Handed(k) /\ Cardinality(TasksOf(task[k].file)) = 1) => ~results[task[k].file]

\* the batch is over; the copy of a book failed after its first chunk and
\* the destination, where another book lay before, holds that chunk only;
\* the reopening of another book failed and its destination is empty
C16_Witness ==
  /\ Collected /\ files = <<NameA, NameE>>
  /\ task[1].failed = "copy" /\ task[1].off = 1
  /\ disk[PathX].data = <<Content(1)[1]>>
  /\ task[2].failed = "open"
  /\ disk[DestOf(2)].data = <<>>

\* whether run has passed the line that gives it the handle: zip.OpenReader
\* (line 90), os.Create (122), os.Open (133)
HasContainer(t) ==
  /\ t.pc # "unborn" /\ t.pc # "detect" /\ t.pc # "zip"
  /\ t.failed # "detect" /\ t.failed # "mime" /\ t.failed # "zip"
HasOutput(t) ==
  /\ HasContainer(t) /\ t.pc # "read" /\ t.pc # "create"
  /\ (t.failed = "" \/ t.failed = "open" \/ t.failed = "copy")
HasInput(t) ==
  /\ HasOutput(t) /\ t.pc # "open"
  /\ (t.failed = "" \/ t.failed = "copy")
\* a handle run got is open until run returns and closed from then on
Held(t, has) == IF ~has THEN "nil" ELSE IF t.pc = "done" THEN "closed" ELSE "open"

\* C17: the entry stream of the descriptor is never open once readEpubData
\* returned, whether the parse succeeded or failed, and it was opened and
\* closed when the first .opf entry could be opened; and when run has
\* returned, on the success path or from a failure branch, the container,
\* the destination and the input it had opened are closed, each of them
\* open until then
C17_Released ==
  \A k \in Born : \E t \in {task[k]} :
    /\ t.rc # "open"
    /\ IF HasContainer(t) /\ t.pc # "read"
       THEN /\ (t.file = NameA \/ t.file = NameE \/ t.file = NameB) => t.rc = "closed"
            /\ (t.file = NameN \/ t.file = NameU) => t.rc = "nil"
            /\ t.failed # "meta" => t.rc = "closed"
       ELSE t.rc = "nil"
    /\ t.f = Held(t, HasContainer(t))
    /\ t.fout = Held(t, HasOutput(t))
    /\ t.fin = Held(t, HasInput(t))
    /\ t.pc = "done" => (t.f # "open" /\ t.fout # "open" /\ t.fin # "open")

\* two goroutines returned: one after its copy failed, the three handles it
\* had closed; the other after its descriptor could not be decoded, the
\* entry stream and the container closed
C17_Witness ==
  /\ files = <<NameA, NameB>>
  /\ task[1].pc = "done" /\ task[1].failed = "copy"
  /\ task[1].f = "closed" /\ task[1].fout = "closed" /\ task[1].fin = "closed"
  /\ task[1].rc = "closed"
  /\ task[2].pc = "done" /\ task[2].failed = "meta"
  /\ task[2].rc = "closed" /\ task[2].f = "closed" /\ task[2].fout = "nil"

\* C18, as claimed: a goroutine never modifies its input: when it has ended,
\* and no other goroutine created any file, the input holds the bytes it
\* held when the process started, also when it lies in the output directory
\* under its own sanitized name
C18_AsClaimed ==
  \A k \in Born :
    (/\ Handed(k)
     /\ task[k].file \in InitPaths
     /\ \A j \in Born \ {k} : ~Created(j))
      => /\ task[k].file \in DOMAIN disk
         /\ disk[task[k].file].data = Bytes(task[k].file)

\* the outcome main took last for path p
LastOf(p) == received[p][Len(received[p])]

\* C19: once main has reported, succeeded + failed is the number of distinct
\* input paths, which is the number of entries of the result map and at most
\* the number of goroutines launched; succeeded is the number of paths whose
\* entry, the outcome taken last for the path, is true; and each distinct
\* path has exactly one status line, which shows its entry
C19_Tally ==
  (mainPc = "return" \/ (Exited /\ exitCode = 0)) =>
    /\ tally.succeeded + tally.failed = Cardinality(InputSet)
    /\ tally.succeeded + tally.failed = Cardinality(DOMAIN results)
    /\ tally.succeeded + tally.failed <= launched
    /\ (~DistinctPaths => tally.succeeded + tally.failed < launched)
    /\ tally.succeeded = Cardinality({p \in InputSet : LastOf(p)})
    /\ tally.failed = Cardinality({p \in InputSet : ~LastOf(p)})
    /\ \A p \in InputSet :
         /\ Cardinality({l \in tally.lines : l[1] = p}) = 1
         /\ <<p, results[p]>> \in tally.lines
    /\ \A l \in tally.lines : l[1] \in InputSet
    /\ Cardinality(tally.lines) = Cardinality(InputSet)

\* one path was given twice; its first goroutine failed and its second
\* succeeded: one line, one success, no failure
C19_Witness ==
  /\ Exited /\ exitCode = 0
  /\ Len(files) = 2 /\ files[1] = files[2]
  /\ received[files[1]] = <<FALSE, TRUE>>
  /\ tally.succeeded = 1 /\ tally.failed = 0
  /\ Cardinality(tally.lines) = 1

====
